---- MODULE Spec2Model ----
(***************************************************************************)
(* hammertime: git based time tracking (src/hammertime/__init__.py).       *)
(*                                                                         *)
(* One invocation of main() is modelled step by step (pc), over a git      *)
(* repository reduced to what main() touches: the heads, the checked-out   *)
(* branch, the storage file (.hammertime/times.json) as committed on each  *)
(* branch, in the index and in the working tree, the user's uncommitted    *)
(* changes to other tracked files, and the stash stack.  Every git call    *)
(* that can raise has a raising variant.                                   *)
(***************************************************************************)
EXTENDS Integers, Sequences, FiniteSets, TLC

\* ------------------------------------------------------------------ bounds
\* invocations of main() per behaviour
MaxRuns == 3
\* stash entries the user has pushed by hand before the first invocation
MaxStash == 1

\* --------------------------------------------------------------- constants
\* seconds of a day: timedelta prints "N day(s), H:MM:SS" from here on
DaySecs == 86400
\* microseconds of a second
Million == 1000000
\* seconds of an hour and of a minute, as total() weighs the fields of a delta
HourSecs == 3600
MinuteSecs == 60

\* opts.branch, default 'hammertime'
Branch == "hammertime"
\* the other branch of the repository
Main == "main"
Branches == {Main, Branch}
\* repo.head of a detached HEAD: head.reference raises TypeError
Detached == "DETACHED"

\* python's None (opts.message or None; a JSON null)
None == "None"
\* opts.message: False by default, or the text after -m
Messages == {"False", "m1"}
\* the four commands of the command surface
Commands == {"start", "stop", "show", "total"}
\* the user's uncommitted changes to tracked files
Changes == {"edit"}

VARIABLES
    heads,      \* repo.heads: the branches that exist
    head,       \* repo.head: the checked-out branch, or Detached
    tip,        \* tip[b]: the storage file in the last commit of branch b
    ncommits,   \* ncommits[b]: number of commits on branch b
    index,      \* the storage file as staged
    wtFile,     \* the storage file in the working tree
    wtMod,      \* uncommitted changes to other tracked files
    stash,      \* the stash stack, top first
    pc,         \* position of main()
    cmd,        \* args[0]
    message,    \* opts.message
    branch,     \* main's local `branch`: the branch name, or "unbound"
    timer,      \* main's local `timer`
    exc,        \* the exception in flight, "none" when there is none
    outcome,    \* what the last invocation reported to its caller
    events,     \* what this invocation has done so far
    output,     \* what total printed, in seconds; -1 when nothing
    loaded,     \* the storage file as init() read it
    pre,        \* the repository as the invocation found it
    runs        \* invocations so far

vars == <<heads, head, tip, ncommits, index, wtFile, wtMod, stash, pc,
          cmd, message, branch, timer, exc, outcome, events, output, loaded,
          pre, runs>>

repoVars == <<heads, head, tip, ncommits, index, wtFile, wtMod, stash>>
callVars == <<cmd, message, pre, runs>>

\* ------------------------------------------------------------- time values
\* the seconds the clock is read at: one, the next, and one more than a day on
Seconds == {0, 1, DaySecs + 1}
\* datetime.utcnow(): a reading whose microsecond part is zero, or is not
Instants == [s : Seconds, us : {0, 500000}]
\* a <= b on datetimes
NotAfter(a, b) == a.s < b.s \/ (a.s = b.s /\ a.us <= b.us)
Datetime(t) == [tag |-> "datetime", s |-> t.s, us |-> t.us]

\* datetime.isoformat(): the fraction is printed only when microsecond # 0
isoformat(d) == [tag |-> "str", s |-> d.s, us |-> d.us]
\* whether '%Y-%m-%dT%H:%M:%S.%f' matches: it needs the fraction
strptimeOk(str) == str.us # 0
strptime(str) == [tag |-> "datetime", s |-> str.s, us |-> str.us]

\* a timedelta is normalised to seconds and 0 <= microseconds < 10^6;
\* b - a, for a not after b
Minus(b, a) ==
    IF b.us >= a.us
    THEN [tag |-> "timedelta", v |-> b.s - a.s, us |-> b.us - a.us]
    ELSE [tag |-> "timedelta", v |-> b.s - a.s - 1, us |-> b.us - a.us + Million]
\* str(timedelta).split('.')[0]: the whole seconds, "[N day(s), ]H:MM:SS"
StrDelta(d) == [tag |-> "str", v |-> d.v, us |-> 0]
NoDelta == [tag |-> "none", v |-> 0, us |-> 0]
NoStop == [time |-> [tag |-> "none", s |-> 0, us |-> 0], message |-> None]

\* ------------------------------------------------------------ log entries
\* A dict of the 'times' list: `keys` are the keys it has besides 'start'.
RunningEntry(t, m) ==
    [start |-> [time |-> t, message |-> m], stop |-> NoStop,
     delta |-> NoDelta, keys |-> {}]

IsRunning(e) == "stop" \notin e.keys

\* DatetimeEncoder.default: a datetime becomes its isoformat, a timedelta its
\* str() cut at the '.'; strings and None are JSON already
EncodeTime(t) == IF t.tag = "datetime" THEN isoformat(t) ELSE t
EncodeDelta(d) ==
    IF d.tag = "timedelta" THEN StrDelta(d) ELSE d
EncodeEntry(e) ==
    [start |-> [time |-> EncodeTime(e.start.time), message |-> e.start.message],
     stop  |-> [time |-> EncodeTime(e.stop.time), message |-> e.stop.message],
     delta |-> EncodeDelta(e.delta),
     keys  |-> e.keys]

\* datetime_hook: a 'time' that strptime accepts becomes a datetime; the
\* ValueError of one it rejects is dropped by `finally: return obj`, which
\* leaves the string in place
datetime_hook(obj) ==
    IF obj.time.tag = "str" /\ strptimeOk(obj.time)
    THEN [obj EXCEPT !.time = strptime(obj.time)]
    ELSE obj
DecodeEntry(e) ==
    [e EXCEPT !.start = datetime_hook(e.start),
              !.stop = IF "stop" \in e.keys THEN datetime_hook(e.stop) ELSE e.stop]

\* ------------------------------------------------------------ storage file
NoFile == [exists |-> FALSE, json |-> FALSE, times |-> <<>>]
\* open(FILE, 'w').close(): zero bytes, which json.load rejects
EmptyFile == [exists |-> TRUE, json |-> FALSE, times |-> <<>>]
\* a dump that writes the newest entry alone
Dump_LastOnly(t) ==
    [exists |-> TRUE, json |-> TRUE,
     times |-> IF Len(t.times) = 0 THEN <<>>
               ELSE <<EncodeEntry(t.times[Len(t.times)])>>]
\* json.dump(timer, ..., cls=DatetimeEncoder)
Dump(t) ==
    [exists |-> TRUE, json |-> TRUE,
     times |-> [i \in 1..Len(t.times) |-> EncodeEntry(t.times[i])]]
\* json.load(..., object_hook=datetime_hook), ValueError giving dict(times=[])
Load(f) ==
    IF f.json
    THEN [times |-> [i \in 1..Len(f.times) |-> DecodeEntry(f.times[i])]]
    ELSE [times |-> <<>>]
NoTimer == [times |-> <<>>]

\* ---------------------------------------------------------------- Timer
\* opts.message or None
MessageOrNone(m) == IF m = "False" THEN None ELSE m

\* a start that puts the new entry in the place of the last one
TimerStart_Replace(t, now, m) ==
    [exc |-> "none",
     timer |-> [times |->
        IF Len(t.times) = 0
        THEN <<RunningEntry(Datetime(now), MessageOrNone(m))>>
        ELSE [t.times EXCEPT ![Len(t.times)] =
                 RunningEntry(Datetime(now), MessageOrNone(m))]]]
\* Timer.start: appends, whatever the last entry is
TimerStart(t, now, m) ==
    [exc |-> "none",
     timer |-> [times |-> Append(t.times, RunningEntry(Datetime(now), MessageOrNone(m)))]]

\* a stop that does nothing on an empty list instead of raising
TimerStop_NoCheck(t, now, m) == [exc |-> "none", timer |-> t]
\* a stop that always takes the branch of line 112, delta = None
TimerStop_NullDelta(t, now, m) ==
    IF Len(t.times) = 0 THEN [exc |-> "IndexError", timer |-> t]
    ELSE [exc |-> "none",
          timer |-> [times |-> [t.times EXCEPT ![Len(t.times)] =
              [@ EXCEPT !.stop = [time |-> Datetime(now),
                                  message |-> MessageOrNone(m)],
                        !.delta = NoDelta,
                        !.keys = @ \cup {"stop", "delta"}]]]]
\* a stop that refuses an entry that is already stopped
TimerStop_Strict(t, now, m) ==
    IF Len(t.times) = 0 THEN [exc |-> "IndexError", timer |-> t]
    ELSE IF "stop" \in t.times[Len(t.times)].keys
    THEN [exc |-> "NotRunning", timer |-> t]
    ELSE LET n == Len(t.times)
             time == t.times[n]
             upd == [time EXCEPT !.stop = [time |-> Datetime(now),
                                           message |-> MessageOrNone(m)],
                                 !.keys = @ \cup {"stop"}]
         IN IF time.start.time.tag = "str"
            THEN [exc |-> "TypeError", timer |-> [times |-> [t.times EXCEPT ![n] = upd]]]
            ELSE [exc |-> "none",
                  timer |-> [times |-> [t.times EXCEPT ![n] =
                      [upd EXCEPT !.delta = Minus(now, time.start.time),
                                  !.keys = @ \cup {"delta"}]]]]
\* Timer.stop: self['times'][-1] raises IndexError on an empty list; the
\* subtraction raises TypeError when the start time is still a string
TimerStop(t, now, m) ==
    IF Len(t.times) = 0 THEN [exc |-> "IndexError", timer |-> t]
    ELSE LET n == Len(t.times)
             time == t.times[n]
             upd == [time EXCEPT !.stop = [time |-> Datetime(now),
                                           message |-> MessageOrNone(m)],
                                 !.keys = @ \cup {"stop"}]
         IN IF time.start.time.tag = "none"
            THEN [exc |-> "none",
                  timer |-> [times |-> [t.times EXCEPT ![n] =
                      [upd EXCEPT !.delta = NoDelta, !.keys = @ \cup {"delta"}]]]]
            ELSE IF time.start.time.tag = "str"
            THEN [exc |-> "TypeError", timer |-> [times |-> [t.times EXCEPT ![n] = upd]]]
            ELSE [exc |-> "none",
                  timer |-> [times |-> [t.times EXCEPT ![n] =
                      [upd EXCEPT !.delta = Minus(now, time.start.time),
                                  !.keys = @ \cup {"delta"}]]]]

\* total: what one entry raises, and what it adds
DeltaExc(e) ==
    IF "delta" \notin e.keys THEN "none"
    ELSE IF e.delta.tag # "str" THEN "AttributeError"
    ELSE IF e.delta.v >= DaySecs THEN "ValueError"
    ELSE "none"
DeltaSeconds(e) ==
    IF "delta" \notin e.keys THEN 0
    ELSE LET h == e.delta.v \div HourSecs
             m == (e.delta.v % HourSecs) \div MinuteSecs
             s == e.delta.v % MinuteSecs
         IN h * HourSecs + m * MinuteSecs + s

RECURSIVE TotalFrom(_, _, _)
TotalFrom(times, i, acc) ==
    IF i > Len(times) THEN [exc |-> "none", total |-> acc]
    ELSE IF DeltaExc(times[i]) # "none"
    THEN [exc |-> DeltaExc(times[i]), total |-> -1]
    ELSE TotalFrom(times, i + 1, acc + DeltaSeconds(times[i]))
Total(t) == TotalFrom(t.times, 1, 0)

\* ------------------------------------------------------------------ git
\* `git checkout b` refuses when the storage file differs between the two
\* commits and the working tree or the index holds another version of it
CheckoutBlocked(b) ==
    tip[head] # tip[b] /\ (index # tip[head] \/ wtFile # tip[head])

\* the working tree and index after a checkout of b: local state is carried
\* over when the two commits agree on the file
CheckedOut(b, f) == IF tip[head] = tip[b] THEN f ELSE tip[b]

\* `git stash`: saves the changes to tracked files and cleans the tree; with
\* nothing to save it pushes no entry and still exits 0
StashPushed == IF wtMod # {} THEN <<wtMod>> \o stash ELSE stash

\* the snapshot an invocation is judged against
Snapshot ==
    [heads |-> heads, head |-> head, tip |-> tip, ncommits |-> ncommits,
     index |-> index, wtFile |-> wtFile, wtMod |-> wtMod, stash |-> stash]

\* what the user may have stashed by hand before the tool is first run
UserStashes ==
    UNION {[1..n -> (SUBSET Changes) \ {{}}] : n \in 0..MaxStash}

\* the snapshot held while no invocation is under way
NoSnapshot ==
    [heads |-> {}, head |-> Main, tip |-> [b \in Branches |-> NoFile],
     ncommits |-> [b \in Branches |-> 0], index |-> NoFile, wtFile |-> NoFile,
     wtMod |-> {}, stash |-> <<>>]

\* ----------------------------------------------------------------- Init
Init ==
    /\ \E h \in {{}, {Main}, {Main, Branch}} :
        /\ heads = h
        /\ head \in (IF h = {} THEN {Main} ELSE h \cup {Detached})
    /\ tip = [b \in Branches |-> NoFile]
    /\ ncommits = [b \in Branches |-> IF b \in heads THEN 1 ELSE 0]
    /\ index = NoFile
    /\ wtFile = NoFile
    /\ wtMod \in (IF heads = {} THEN {{}} ELSE SUBSET Changes)
    /\ stash \in (IF heads = {} THEN {<<>>} ELSE UserStashes)
    /\ pc = "idle"
    /\ cmd = "show"
    /\ message = "False"
    /\ branch = "unbound"
    /\ timer = NoTimer
    /\ exc = "none"
    /\ outcome = "none"
    /\ events = {}
    /\ output = -1
    /\ loaded = NoFile
    /\ pre = NoSnapshot
    /\ runs = 0

\* No invocation is under way.  A repository is followed up to the first
\* invocation in which a git call fails, and to the end of that invocation:
\* what the user does to repair it is not modelled.
Idle == pc \in {"idle", "done"} /\ "vcfail" \notin events

\* ----------------------------------------------------------------- main
\* a raise that leaves main() at once, as without the finally block
Raise_NoFinally(e) ==
    /\ exc' = e
    /\ pc' = "done"
\* a statement of the try block raises: control goes to the finally block
Raise(e) ==
    /\ exc' = e
    /\ pc' = "restore"

\* the check of line 207 left out
NoInitialCommit_Skipped == FALSE
\* line 207: len(repo.heads) == 0
NoInitialCommit == Cardinality(heads) = 0

\* main, lines 197-210: with no head at all it exits at once
Main_Enter ==
    /\ Idle
    /\ runs < MaxRuns
    /\ \E c \in Commands, m \in Messages :
        /\ c \in {"show", "total"} => m = "False"   \* they never read it
        /\ cmd' = c
        /\ message' = m
    /\ runs' = runs + 1
    /\ pre' = Snapshot
    /\ branch' = "unbound"
    /\ timer' = NoTimer
    /\ exc' = "none"
    /\ events' = {}
    /\ output' = -1
    /\ loaded' = NoFile
    /\ IF NoInitialCommit
       THEN pc' = "done" /\ outcome' = "EmptyRepository"
       ELSE pc' = "record" /\ outcome' = "running"
    /\ UNCHANGED repoVars

\* line 214: branch = repo.head.reference
Main_SaveBranch ==
    /\ pc = "record"
    /\ IF head = Detached
       THEN Raise("TypeError") /\ UNCHANGED branch
       ELSE branch' = head /\ pc' = "stash" /\ UNCHANGED exc
    /\ UNCHANGED <<repoVars, callVars, timer, outcome, events, output, loaded>>

\* the variant that stashes only when the branch has to be switched
Main_Stash_WhenSwitching ==
    /\ pc = "stash"
    /\ IF head # Branch
       THEN /\ stash' = StashPushed
            /\ wtMod' = {}
            /\ events' = events \cup {"stash"} \cup (IF wtMod # {} THEN {"pushed"} ELSE {})
       ELSE UNCHANGED <<stash, wtMod, events>>
    /\ pc' = "branch"
    /\ UNCHANGED <<heads, head, tip, ncommits, index, wtFile, callVars,
                   branch, timer, exc, outcome, output, loaded>>
\* line 217: repo.git.stash()
Main_Stash ==
    /\ pc = "stash"
    /\ stash' = StashPushed
    /\ wtMod' = {}
    /\ events' = events \cup {"stash"} \cup (IF wtMod # {} THEN {"pushed"} ELSE {})
    /\ pc' = "branch"
    /\ UNCHANGED <<heads, head, tip, ncommits, index, wtFile, callVars,
                   branch, timer, exc, outcome, output, loaded>>

\* a stash whose failure is dropped, the workflow going on
Main_StashFails_Ignored ==
    /\ pc = "stash"
    /\ events' = events \cup {"stash", "stashfail", "vcfail"}
    /\ pc' = "branch"
    /\ UNCHANGED <<repoVars, callVars, branch, timer, exc, outcome, output,
                   loaded>>
\* line 217 raising GitCommandError
Main_StashFails ==
    /\ pc = "stash"
    /\ events' = events \cup {"stash", "stashfail", "vcfail"}
    /\ Raise("GitCommandError")
    /\ UNCHANGED <<repoVars, callVars, branch, timer, outcome, output, loaded>>

\* init, lines 119-120: the branch is created at the checked-out commit
Init_Branch ==
    /\ pc = "branch"
    /\ IF Branch \in heads
       THEN UNCHANGED <<heads, tip, ncommits, events>>
       ELSE /\ heads' = heads \cup {Branch}
            /\ tip' = [tip EXCEPT ![Branch] = tip[head]]
            /\ ncommits' = [ncommits EXCEPT ![Branch] = ncommits[head]]
            /\ events' = events \cup {"branch"}
    /\ pc' = "checkout"
    /\ UNCHANGED <<head, index, wtFile, wtMod, stash, callVars, branch,
                   timer, exc, outcome, output, loaded>>

Init_BranchFails ==
    /\ pc = "branch"
    /\ Branch \notin heads
    /\ events' = events \cup {"vcfail"}
    /\ Raise("GitCommandError")
    /\ UNCHANGED <<repoVars, callVars, branch, timer, outcome, output, loaded>>

\* an init that goes on without switching to the tracking branch
Init_Checkout_Stays ==
    /\ pc = "checkout"
    /\ events' = events \cup {"checkout"}
    /\ pc' = "load"
    /\ UNCHANGED <<repoVars, callVars, branch, timer, exc, outcome, output,
                   loaded>>
\* init, line 123: getattr(repo.heads, opts.branch).checkout()
Init_Checkout ==
    /\ pc = "checkout"
    /\ ~CheckoutBlocked(Branch)
    /\ head' = Branch
    /\ index' = CheckedOut(Branch, index)
    /\ wtFile' = CheckedOut(Branch, wtFile)
    /\ events' = events \cup {"checkout"}
    /\ pc' = "load"
    /\ UNCHANGED <<heads, tip, ncommits, wtMod, stash, callVars, branch,
                   timer, exc, outcome, output, loaded>>

Init_CheckoutFails ==
    /\ pc = "checkout"
    /\ events' = events \cup {"vcfail"}
    /\ Raise("GitCommandError")
    /\ UNCHANGED <<repoVars, callVars, branch, timer, outcome, output, loaded>>

\* the load without its `except ValueError`: a file that is not JSON ends init
Init_Load_NoExcept ==
    /\ pc = "load"
    /\ wtFile' = (IF wtFile.exists THEN wtFile ELSE EmptyFile)
    /\ loaded' = wtFile'
    /\ events' = events \cup {"load"} \cup (IF wtFile.exists THEN {} ELSE {"created"})
    /\ IF wtFile'.json
       THEN timer' = Load(wtFile') /\ pc' = "command" /\ UNCHANGED exc
       ELSE Raise("ValueError") /\ UNCHANGED timer
    /\ UNCHANGED <<heads, head, tip, ncommits, index, wtMod, stash,
                   callVars, branch, outcome, output>>
\* init, lines 126-141: folder and file are created when missing, then read
Init_Load ==
    /\ pc = "load"
    /\ wtFile' = (IF wtFile.exists THEN wtFile ELSE EmptyFile)
    /\ loaded' = wtFile'
    /\ timer' = Load(wtFile')
    /\ events' = events \cup {"load"} \cup (IF wtFile.exists THEN {} ELSE {"created"})
    /\ pc' = "command"
    /\ UNCHANGED <<heads, head, tip, ncommits, index, wtMod, stash,
                   callVars, branch, exc, outcome, output>>

\* a write after every command, read-only ones included
AfterCommand_AlwaysWrite(e) ==
    /\ events' = events \cup {"command"} \cup (IF e # "none" THEN {"raised"} ELSE {})
    /\ IF e # "none" THEN Raise(e)
       ELSE pc' = "write" /\ UNCHANGED exc
\* what follows commands[cmd](repo, opts, timer), lines 221-224
AfterCommand(e) ==
    /\ events' = events \cup {"command"} \cup (IF e # "none" THEN {"raised"} ELSE {})
    /\ IF e # "none" THEN Raise(e)
       ELSE /\ pc' = (IF cmd \in {"start", "stop"} THEN "write" ELSE "restore")
            /\ UNCHANGED exc

\* datetime.utcnow(): the clock does not run backwards, so a reading is not
\* before any time the log holds
Recorded(t) ==
    {t.times[i].start.time : i \in 1..Len(t.times)}
    \cup {t.times[i].stop.time : i \in {j \in 1..Len(t.times) : "stop" \in t.times[j].keys}}
Later(now) == \A r \in Recorded(timer) : NotAfter(r, now)

start ==
    /\ pc = "command" /\ cmd = "start"
    /\ \E now \in Instants :
        /\ Later(now)
        /\ timer' = TimerStart(timer, now, message).timer
        /\ AfterCommand(TimerStart(timer, now, message).exc)
    /\ UNCHANGED <<repoVars, callVars, branch, outcome, output, loaded>>

stop ==
    /\ pc = "command" /\ cmd = "stop"
    /\ \E now \in Instants :
        /\ Later(now)
        /\ timer' = TimerStop(timer, now, message).timer
        /\ AfterCommand(TimerStop(timer, now, message).exc)
    /\ UNCHANGED <<repoVars, callVars, branch, outcome, output, loaded>>

total ==
    /\ pc = "command" /\ cmd = "total"
    /\ output' = Total(timer).total
    /\ AfterCommand(Total(timer).exc)
    /\ UNCHANGED <<repoVars, callVars, branch, timer, outcome, loaded>>

show ==
    /\ pc = "command" /\ cmd = "show"
    /\ AfterCommand("none")
    /\ UNCHANGED <<repoVars, callVars, branch, timer, outcome, output, loaded>>

\* write, lines 146-147: the file is overwritten, then staged
Write_Add ==
    /\ pc = "write"
    /\ wtFile' = Dump(timer)
    /\ index' = Dump(timer)
    /\ events' = events \cup {"dump"}
    /\ pc' = "commit"
    /\ UNCHANGED <<heads, head, tip, ncommits, wtMod, stash, callVars,
                   branch, timer, exc, outcome, output, loaded>>

Write_AddFails ==
    /\ pc = "write"
    /\ wtFile' = Dump(timer)
    /\ events' = events \cup {"dump", "vcfail"}
    /\ Raise("GitCommandError")
    /\ UNCHANGED <<heads, head, tip, ncommits, index, wtMod, stash,
                   callVars, branch, timer, outcome, output, loaded>>

\* write, line 148: repo.index.commit(...)
Write_Commit ==
    /\ pc = "commit"
    /\ tip' = [tip EXCEPT ![head] = index]
    /\ ncommits' = [ncommits EXCEPT ![head] = @ + 1]
    /\ events' = events \cup {"commit"}
    /\ pc' = "restore"
    /\ UNCHANGED <<heads, head, index, wtFile, wtMod, stash, callVars,
                   branch, timer, exc, outcome, output, loaded>>

Write_CommitFails ==
    /\ pc = "commit"
    /\ events' = events \cup {"vcfail"}
    /\ Raise("GitCommandError")
    /\ UNCHANGED <<repoVars, callVars, branch, timer, outcome, output, loaded>>

\* what the caller sees when main ends with exception e in flight
Report(e) == IF e = "none" THEN "ok" ELSE e

\* finally, line 227: getattr(repo.heads, branch.name).checkout(); with
\* `branch` unbound the NameError ends the finally block
Main_Restore ==
    /\ pc = "restore"
    /\ branch # "unbound"
    /\ ~CheckoutBlocked(branch)
    /\ head' = branch
    /\ index' = CheckedOut(branch, index)
    /\ wtFile' = CheckedOut(branch, wtFile)
    /\ events' = events \cup {"restore"}
    /\ pc' = "pop"
    /\ UNCHANGED <<heads, tip, ncommits, wtMod, stash, callVars, branch,
                   timer, exc, outcome, output, loaded>>

Main_RestoreFails ==
    /\ pc = "restore"
    /\ IF branch = "unbound"
       THEN exc' = "NameError" /\ outcome' = "NameError" /\ UNCHANGED events
       ELSE /\ exc' = "GitCommandError" /\ outcome' = "GitCommandError"
            /\ events' = events \cup {"restore", "vcfail"}
    /\ pc' = "done"
    /\ UNCHANGED <<repoVars, callVars, branch, timer, output, loaded>>

\* finally, lines 230-233: repo.git.stash('pop'), whatever it raises dropped
Main_Pop ==
    /\ pc = "pop"
    /\ Len(stash) > 0
    /\ wtMod' = wtMod \cup Head(stash)
    /\ stash' = Tail(stash)
    /\ events' = events \cup {"pop"}
    /\ outcome' = Report(exc)
    /\ pc' = "done"
    /\ UNCHANGED <<heads, head, tip, ncommits, index, wtFile, callVars,
                   branch, timer, exc, output, loaded>>

\* a pop whose failure reaches the caller
Main_PopFails_Propagates ==
    /\ pc = "pop"
    /\ events' = events \cup {"popfail"}
    /\ exc' = "GitCommandError"
    /\ outcome' = "GitCommandError"
    /\ pc' = "done"
    /\ UNCHANGED <<repoVars, callVars, branch, timer, output, loaded>>
\* lines 230-233: stash('pop') raising, `except: pass`
Main_PopFails ==
    /\ pc = "pop"
    /\ events' = events \cup {"popfail"}
    /\ outcome' = Report(exc)
    /\ pc' = "done"
    /\ UNCHANGED <<repoVars, callVars, branch, timer, exc, output, loaded>>

Next ==
    \/ Main_Enter \/ Main_SaveBranch
    \/ Main_Stash \/ Main_StashFails
    \/ Init_Branch \/ Init_BranchFails
    \/ Init_Checkout \/ Init_CheckoutFails
    \/ Init_Load
    \/ start \/ stop \/ total \/ show
    \/ Write_Add \/ Write_AddFails
    \/ Write_Commit \/ Write_CommitFails
    \/ Main_Restore \/ Main_RestoreFails
    \/ Main_Pop \/ Main_PopFails

Spec == Init /\ [][Next]_vars

\* main() is one sequential process: a started invocation runs to its end
FairSpec == Spec /\ WF_vars(Next)

\* ------------------------------------------------------------- properties
Done == pc = "done"
Started == pc # "idle" /\ pre.heads # {}

\* No git call of this invocation failed: the pop of the finally block counts
\* only when there was something to pop.
NoGitFailure == "vcfail" \notin events /\ ("popfail" \in events => stash = <<>>)

\* the log the tracking branch held when the invocation began
PrevLog == IF Branch \in pre.heads THEN pre.tip[Branch] ELSE NoFile
\* the commits the tracking branch had, or starts from, when it began
PrevCommits ==
    IF Branch \in pre.heads THEN pre.ncommits[Branch]
    ELSE IF pre.head \in Branches THEN pre.ncommits[pre.head] ELSE 0
Last(seq) == seq[Len(seq)]

C2_RestoreBeforeEnd ==
    /\ (Done /\ branch # "unbound") => "restore" \in events
    /\ (pc \notin {"idle", "done"}) => ENABLED Next

C2_Witness ==
    Done /\ branch # "unbound" /\ outcome = "IndexError" /\ "restore" \in events

\* the storage file as far as it shows as an untracked file of the tree
Untracked(hd, tp, f) == IF hd \in Branches /\ tp[hd].exists THEN NoFile ELSE f

\* C3: after an invocation in which no git call failed, the checked-out
\* branch, the uncommitted changes and the untracked files are what they were
\* before it; the storage file made by the load step is not left behind.
C3_LeftAsFound ==
    (Done /\ pre.heads # {} /\ NoGitFailure)
    => /\ head = pre.head
       /\ wtMod = pre.wtMod
       /\ Untracked(head, tip, wtFile) = Untracked(pre.head, pre.tip, pre.wtFile)

\* C4: show and total create no commit and leave the persisted log and the
\* loaded log as they were, at every point of the invocation.
C4_ReadOnly ==
    (Started /\ cmd \in {"show", "total"})
    => /\ "commit" \notin events /\ "dump" \notin events
       /\ \A b \in pre.heads : ncommits[b] = pre.ncommits[b] /\ tip[b] = pre.tip[b]
       /\ (IF Branch \in heads THEN tip[Branch] ELSE NoFile) = PrevLog
       /\ (Branch \in heads => ncommits[Branch] = PrevCommits)
       /\ ("load" \in events => timer = Load(loaded))

C4_Witness ==
    /\ Done /\ cmd = "total" /\ outcome = "ok" /\ Len(PrevLog.times) > 0
    /\ "command" \in events

\* C5: a start on a log whose last entry is running is refused and the log
\* is neither changed, written nor committed.
C5_AlreadyRunning ==
    (cmd = "start" /\ "command" \in events /\ Len(loaded.times) > 0
        /\ IsRunning(Last(Load(loaded).times)))
    => /\ exc # "none"
       /\ timer = Load(loaded)
       /\ "dump" \notin events /\ "commit" \notin events

\* C6: a stop on an empty log is refused (IndexError, the NoEntries of the
\* specification): the log stays empty, the storage file is not overwritten,
\* no commit is made, and the original branch is still checked out again.
C6_StopOnEmpty ==
    (cmd = "stop" /\ "command" \in events /\ Len(Load(loaded).times) = 0)
    => /\ timer.times = <<>>
       /\ "dump" \notin events /\ "commit" \notin events
       /\ wtFile = loaded
       /\ ncommits[Branch] = PrevCommits /\ tip[Branch] = PrevLog
       /\ pc \in {"restore", "pop", "done"}
       /\ (pc \in {"restore", "pop"} => exc = "IndexError")
       /\ Done => /\ "restore" \in events
                  /\ outcome \in {"IndexError", "GitCommandError"}
                  /\ (NoGitFailure => outcome = "IndexError" /\ head = pre.head)

C6_Witness ==
    /\ Done /\ cmd = "stop" /\ outcome = "IndexError" /\ "restore" \in events
    /\ "command" \in events /\ timer.times = <<>>

\* C7: in the persisted log at most the last entry is running.
C7_OnlyLastRunning ==
    \A b \in Branches : \A i \in 1..(Len(tip[b].times) - 1) :
        ~IsRunning(tip[b].times[i])

\* C8: with no head in the repository the invocation ends with the
\* empty-repository error before it has done anything, the repository as it
\* was; no later step is ever taken on such a repository.
C8_EmptyRepository ==
    /\ heads = {} => pc \in {"idle", "done"}
    /\ (Done /\ pre.heads = {})
       => outcome = "EmptyRepository" /\ events = {} /\ Snapshot = pre

C8_Witness == Done /\ pre.heads = {} /\ outcome = "EmptyRepository"

C10_PopOnlyOwnStash ==
    (Done /\ pre.heads # {} /\ "pushed" \notin events)
    => "pop" \notin events /\ stash = pre.stash /\ wtMod = pre.wtMod

\* the log as init() loaded it, and its last entry
LoadedLog == Load(loaded)
LoadedLast == Last(LoadedLog.times)
\* the command has run and raised nothing
CommandDone == "command" \in events /\ "raised" \notin events

\* C11: a stop invoked on a log that an earlier start left running succeeds
\* whatever the start time, a zero microsecond part included: the last entry
\* keeps the start, has the stop message, and a delta of stop time minus
\* start time.
C11_StopEndToEnd ==
    (cmd = "stop" /\ "command" \in events /\ Len(LoadedLog.times) > 0
        /\ IsRunning(LoadedLast))
    => /\ CommandDone
       /\ Len(timer.times) = Len(LoadedLog.times)
       /\ LET e == Last(timer.times)
              s0 == Last(loaded.times).start
          IN /\ e.start.message = s0.message
             /\ EncodeTime(e.start.time) = s0.time
             /\ e.keys = {"stop", "delta"}
             /\ e.stop.message = MessageOrNone(message)
             /\ e.delta.tag = "timedelta"
             /\ e.delta = Minus(e.stop.time, s0.time)

\* json.load of what json.dump wrote gives the log back: the same time values
\* and messages, and each delta to the whole second
SameEntry(r, e) ==
    /\ r.keys = e.keys
    /\ r.start.time = e.start.time
    /\ r.start.message = e.start.message
    /\ "stop" \in e.keys =>
           r.stop.time = e.stop.time /\ r.stop.message = e.stop.message
    /\ "delta" \in e.keys => r.delta.v = e.delta.v
RoundTrips(L) ==
    LET R == Load(Dump(L))
    IN /\ Len(R.times) = Len(L.times)
       /\ \A i \in 1..Len(L.times) : SameEntry(R.times[i], L.times[i])

\* C12: decoding the encoded log gives equivalent entries back: every start
\* and stop time, a zero microsecond part included, is the same time value,
\* every message is unchanged, every delta agrees to the whole second.
C12_RoundTrip ==
    (pc = "commit" /\ wtFile = Dump(timer)) => RoundTrips(timer)

\* the seconds of the entries whose delta reads as H:MM:SS, the others
\* counting zero
Parseable(e) ==
    "delta" \in e.keys /\ e.delta.tag = "str" /\ e.delta.v < DaySecs
RECURSIVE SumParseable(_)
SumParseable(times) ==
    IF Len(times) = 0 THEN 0
    ELSE (IF Parseable(Head(times)) THEN DeltaSeconds(Head(times)) ELSE 0)
         + SumParseable(Tail(times))

\* C13: total never fails: it reports the sum of the deltas that read as
\* H:MM:SS, and an entry whose delta is missing, null or malformed, one of a
\* day or more included, counts zero instead of raising.
C13_TotalNeverFails ==
    (cmd = "total" /\ "command" \in events)
    => CommandDone /\ output = SumParseable(timer.times)

\* C14: a storage file that is empty or is not JSON loads as an empty log:
\* the log has a `times` list, empty then, and a start that follows succeeds
\* and gives a log of exactly one running entry.
C14_LoadTolerant ==
    ("load" \in events /\ ~loaded.json)
    => /\ LoadedLog.times = <<>>
       /\ IF pc = "command"
          THEN timer.times = <<>> /\ exc = "none"
          ELSE "command" \in events
       /\ (cmd = "start" /\ "command" \in events)
          => /\ CommandDone
             /\ Len(timer.times) = 1
             /\ IsRunning(timer.times[1])
             /\ (Done /\ NoGitFailure)
                => outcome = "ok" /\ tip[Branch] = Dump(timer)
C14_Witness ==
    /\ Done /\ NoGitFailure /\ cmd = "start"
    /\ "load" \in events /\ loaded = EmptyFile
    /\ Len(tip[Branch].times) = 1

\* C15: every commit of the persist step is made with the tracking branch
\* checked out, after the log was loaded from it and before the original
\* branch is checked out again, and adds to the tracking branch alone; an
\* original branch other than the tracking branch never gains a commit.
C15_CommitOnTrackingBranch ==
    [][/\ ("commit" \in events' /\ "commit" \notin events)
          => /\ head = Branch /\ head' = Branch
             /\ "load" \in events
             /\ loaded = (IF tip[Branch].exists THEN tip[Branch] ELSE EmptyFile)
             /\ "restore" \notin events'
             /\ ncommits'[Branch] = ncommits[Branch] + 1
             /\ \A b \in Branches \ {Branch} :
                    ncommits'[b] = ncommits[b] /\ tip'[b] = tip[b]
       /\ (Started' /\ pre'.head \in Branches \ {Branch})
          => /\ ncommits'[pre'.head] = pre'.ncommits[pre'.head]
             /\ tip'[pre'.head] = pre'.tip[pre'.head]]_vars
C15_Witness ==
    /\ Done /\ "commit" \in events /\ "restore" \in events
    /\ pre.head = Main /\ head = Main
    /\ ncommits[Branch] = PrevCommits + 1
    /\ ncommits[Main] = pre.ncommits[Main]

\* what init(), the command and write() do
WorkflowEvents ==
    {"branch", "checkout", "load", "created", "command", "dump", "commit"}

\* C16: a failed stash is fatal: the invocation goes on to none of creating
\* or checking out the tracking branch, creating or loading the storage
\* file, running the command, or committing, and it reports the failure.
C16_StashFailureFatal ==
    "stashfail" \in events
    => /\ events \cap WorkflowEvents = {}
       /\ pc \in {"restore", "pop", "done"}
       /\ heads = pre.heads /\ tip = pre.tip /\ ncommits = pre.ncommits
       /\ timer = NoTimer /\ loaded = NoFile /\ output = -1
       /\ exc = "GitCommandError"
       /\ Done => outcome = "GitCommandError"
C16_Witness ==
    /\ Done /\ "stashfail" \in events /\ "restore" \in events
    /\ outcome = "GitCommandError"
    /\ Branch \notin heads

\* what commands[cmd] raises on the log init() loaded; the clock reading does
\* not matter to it
CommandExc ==
    IF cmd = "stop"
    THEN TimerStop(LoadedLog, CHOOSE now \in Instants : TRUE, message).exc
    ELSE IF cmd = "total" THEN Total(LoadedLog).exc
    ELSE "none"

\* C17: a failure of the final stash pop is swallowed: the invocation reports
\* what the command gave, success staying success; a failure of any other
\* git call (stash, branch creation, checkout, staging, commit) is reported.
C17_PopFailureSwallowed ==
    Done
    => /\ ("popfail" \in events /\ "vcfail" \notin events)
          => "command" \in events /\ outcome = Report(CommandExc)
       /\ "vcfail" \in events => outcome = "GitCommandError"
C17_Witness ==
    /\ Done /\ "popfail" \in events /\ Len(stash) > 0
    /\ "commit" \in events /\ outcome = "ok"

\* C18: stop looks only at whether the list is empty: on a log whose last
\* entry is already stopped it does not fail, it overwrites that entry's stop
\* with the new time and message and its delta with the new stop time minus
\* the original start time, and the result is committed.
C18_StopAgain ==
    (cmd = "stop" /\ "command" \in events /\ Len(LoadedLog.times) > 0
        /\ ~IsRunning(LoadedLast))
    => /\ CommandDone
       /\ Len(timer.times) = Len(LoadedLog.times)
       /\ LET e == Last(timer.times)
          IN /\ e.start = LoadedLast.start
             /\ e.keys = {"stop", "delta"}
             /\ e.stop.message = MessageOrNone(message)
             /\ e.stop.time.tag = "datetime"
             /\ NotAfter(LoadedLast.stop.time, e.stop.time)
             /\ e.delta = Minus(e.stop.time, LoadedLast.start.time)
       /\ (Done /\ NoGitFailure)
          => /\ outcome = "ok"
             /\ ncommits[Branch] = PrevCommits + 1
             /\ tip[Branch] = Dump(timer)
C18_Witness ==
    /\ Done /\ NoGitFailure /\ cmd = "stop" /\ outcome = "ok"
    /\ Len(loaded.times) > 0 /\ "stop" \in Last(loaded.times).keys
    /\ Last(tip[Branch].times).stop # Last(loaded.times).stop
    /\ Last(tip[Branch].times).delta # Last(loaded.times).delta

\* C19: `times` only grows at its end: a successful start adds exactly one
\* entry and leaves the others as they were; a successful stop keeps the
\* number of entries, changes only the stop and delta of the last one and
\* leaves its start and all earlier entries alone; no command removes or
\* reorders entries, in memory or in what is committed.
C19_AppendOnly ==
    "command" \in events
    => LET L == LoadedLog.times
           T == timer.times
           n == Len(L)
       IN /\ Len(T) >= n
          /\ \A i \in 1..(n - 1) : T[i] = L[i]
          /\ n > 0 => T[n].start = L[n].start
          /\ (cmd = "start" /\ CommandDone)
             => Len(T) = n + 1 /\ SubSeq(T, 1, n) = L
          /\ (cmd = "stop" /\ CommandDone) => Len(T) = n /\ n > 0
          /\ cmd \in {"show", "total"} => T = L
          /\ "commit" \in events
             => /\ Len(tip[Branch].times) = Len(T)
                /\ \A i \in 1..(n - 1) : tip[Branch].times[i] = loaded.times[i]
                /\ n > 0 => tip[Branch].times[n].start = loaded.times[n].start
                /\ cmd = "start" => SubSeq(tip[Branch].times, 1, n) = loaded.times
C19_Witness ==
    /\ Done /\ NoGitFailure /\ cmd = "stop" /\ outcome = "ok"
    /\ Len(loaded.times) = 2 /\ Len(tip[Branch].times) = 2
    /\ tip[Branch].times[1] = loaded.times[1]
    /\ tip[Branch].times[2] # loaded.times[2]

\* an entry has 'stop' and 'delta' together or not at all, and a delta is a
\* duration: a timedelta in memory, its string in the file
StopHasDelta(e) ==
    /\ "stop" \in e.keys <=> "delta" \in e.keys
    /\ "delta" \in e.keys => e.delta.tag \in {"timedelta", "str"}
AllStopHasDelta(times) == \A i \in 1..Len(times) : StopHasDelta(times[i])

C2_RestoreEventually ==
    (branch # "unbound" /\ pc # "done") ~> ("restore" \in events)

====
